---- MODULE Spec2Model ----
(***************************************************************************)
(* Model of src/weightapi.py: a Flask service that reads an A9 weight      *)
(* indicator over a serial line.  The module-level globals (serial_port,   *)
(* last_error, serial_thread, should_stop_serial_thread) are the shared    *)
(* state; the request handlers served by waitress' worker threads and the  *)
(* daemon threads running read_serial_data_continuous are the processes.   *)
(* Text is a sequence of one-character strings.                            *)
(***************************************************************************)
EXTENDS Integers, Sequences, FiniteSets, TLC

(* ------------------------------ bounds --------------------------------- *)

\* Pieces of the stream the driver's receive queue holds at most.
MaxPending == 1

\* Longest accumulation buffer the continuous loop is followed to.
MaxBuf == 4

\* Loop threads that can be running at once.
MaxThreads == 2

\* Longest text handed to the framing and decoding functions.
MaxText == 6

\* Most digits between the sign and the letter of a token handed to them.
MaxDigits == 3

\* Worker threads of the HTTP server that run request handlers concurrently.
Handlers == {"h1", "h2"}

\* What the indicator sends over and over, in the pieces in which it reaches
\* the driver: here one frame (docstring of parse_weight_data: sign, weight
\* digits, decimal count, status) at a time.
Stream == << <<"+", "1", "2", "B">> >>

(* ------------------------- program constants --------------------------- *)

\* serial.Serial(..., timeout=0.1), in milliseconds.
OpenTimeout == 100

\* serial_port.timeout = 0.1 inside read_from_serial_with_timeout, in ms.
ShortTimeout == 100

\* max_consecutive_errors = 5
MaxConsecutiveErrors == 5

\* read_from_serial_with_timeout(timeout=2.0) in /api/weight/latest.  The
\* clock of a call advances one unit per polling iteration.
GetFreshTimeout == 2

\* read_from_serial_with_timeout(timeout=1.0) in /api/weight/health.
HealthTimeout == 1

(* ------------------------------- text ---------------------------------- *)

Signs == {"+", "-"}

DigitChars == {"0", "1", "2", "3", "4", "5", "6", "7", "8", "9"}

\* [A-Za-z], over the status letters the streams considered contain
UpperLetters == {"B", "C", "G", "N"}

LowerLetters == {"b", "c", "g", "n"}

Letters == UpperLetters \cup LowerLetters

\* int(c) for a digit character
DigitVal(c) ==
  CASE c = "0" -> 0 [] c = "1" -> 1 [] c = "2" -> 2 [] c = "3" -> 3
    [] c = "4" -> 4 [] c = "5" -> 5 [] c = "6" -> 6 [] c = "7" -> 7
    [] c = "8" -> 8 [] c = "9" -> 9

\* str.upper() on one character
UpperSame(c) == c

Upper(c) ==
  CASE c = "b" -> "B" [] c = "c" -> "C" [] c = "g" -> "G" [] c = "n" -> "N"
    [] OTHER -> c

\* Index of the last character of the longest digit run starting at i
\* (i - 1 when s[i] is no digit).
RECURSIVE DigitRunEnd(_, _)
DigitRunEnd(s, i) ==
  IF i <= Len(s) /\ s[i] \in DigitChars THEN DigitRunEnd(s, i + 1) ELSE i - 1

\* Where a match of [+-]\d+[A-Za-z] that starts at i ends; 0 when there is
\* none.  \d+ is greedy and the next character must be a letter, so only the
\* maximal digit run can match.
MatchEnd(s, i) ==
  IF i <= Len(s) /\ s[i] \in Signs
  THEN LET e == DigitRunEnd(s, i + 1)
       IN  IF e >= i + 1 /\ e + 1 <= Len(s) /\ s[e + 1] \in Letters
           THEN e + 1 ELSE 0
  ELSE 0

\* Start positions of matches, scanning from the left.
MatchStarts(s) == {i \in 1..Len(s) : MatchEnd(s, i) # 0}

Min(S) == CHOOSE x \in S : \A y \in S : x <= y

\* re.search(r'[+-]\d+[A-Za-z]', buffer) is not None
has_complete_reading(buffer) == MatchStarts(buffer) # {}

Max(S) == CHOOSE x \in S : \A y \in S : x >= y

\* re.findall(...)[0], or None (the empty text) when nothing matches
extract_weight_reading_latest(buffer) ==
  IF MatchStarts(buffer) = {} THEN <<>>
  ELSE LET i == Max(MatchStarts(buffer))
       IN  SubSeq(buffer, i, MatchEnd(buffer, i))

extract_weight_reading(buffer) ==
  IF MatchStarts(buffer) = {} THEN <<>>
  ELSE LET i == Min(MatchStarts(buffer))
       IN  SubSeq(buffer, i, MatchEnd(buffer, i))

\* numeric_part.lstrip('0')
LStripZerosAll(s) == SelectSeq(s, LAMBDA c : c # "0")

RECURSIVE LStripZeros(_)
LStripZeros(s) ==
  IF s # <<>> /\ Head(s) = "0" THEN LStripZeros(Tail(s)) ELSE s

\* float() of a run of decimal digits, as the integer it denotes
RECURSIVE DigitsToNat(_)
DigitsToNat(s) ==
  IF s = <<>> THEN 0
  ELSE 10 * DigitsToNat(SubSeq(s, 1, Len(s) - 1)) + DigitVal(s[Len(s)])

NoValue == [ok |-> FALSE, num |-> 0, decimals |-> 0, stable |-> FALSE, raw |-> <<>>]

\* parse_weight_data: the weight is num / 10^decimals
parse_weight_data(raw_data) ==
  IF MatchStarts(raw_data) = {} THEN NoValue
  ELSE LET weight_string  == extract_weight_reading(raw_data)
           n              == Len(weight_string)
           sign_char      == weight_string[1]
           status_char    == Upper(weight_string[n])
           decimal_digits == DigitVal(weight_string[n - 1])
           numeric_part   == SubSeq(weight_string, 2, n - 2)
           stripped       == LStripZeros(numeric_part)
           clean_numeric  == IF stripped = <<>> THEN <<"0">> ELSE stripped
           weight_value   == DigitsToNat(clean_numeric)
       IN  [ok       |-> TRUE,
            num      |-> IF sign_char = "-" THEN 0 - weight_value ELSE weight_value,
            decimals |-> decimal_digits,
            stable   |-> status_char \in {"B", "C"},
            raw      |-> weight_string]

(* ------------------------------ state ---------------------------------- *)

VARIABLES
  portState,      \* serial_port: "none" (None), "closed" or "open" (is_open)
  portTimeout,    \* serial_port.timeout in ms (0 while serial_port is None)
  should_stop_serial_thread,
  last_error,     \* the message log_error stored last, "none" for None
  serial_thread,  \* 0 for None, 1 once a Thread has been assigned
  threads,        \* threads[1] is the Thread serial_thread refers to, the
                  \* others are threads it no longer refers to that still run
  devicePresent,  \* whether the indicator is attached and its port usable
  rx,             \* the driver's receive queue: the pieces that arrived
  pos,            \* index in Stream of the next piece the device sends
  req,            \* per worker thread: the request it serves and its locals
  lastRec,        \* how the recovery of a /api/weight/latest request ended,
                  \* while no request has arrived and no recovery run since
  stream,         \* what the indicator sends over and over, in the pieces in
                  \* which it reaches the driver
  text,           \* a text handed to the framing and decoding functions
  result          \* what they returned for it

vars == <<portState, portTimeout, should_stop_serial_thread, last_error,
          serial_thread, threads, devicePresent, rx, pos, req, lastRec,
          stream, text, result>>

\* What no step of the server changes
fixedVars == <<stream, text, result>>

ThreadIds == 1..MaxThreads

\* The messages passed to log_error
MsgClearOp   == "Serial operation 'clear_buffer' failed"
MsgClear     == "Failed to clear serial buffer"
MsgLoopPort  == "Serial port not available for continuous reading"
MsgLoopOp    == "Serial operation 'continuous_read' failed"
MsgTooMany   == "Too many consecutive serial errors, stopping thread"
MsgHealth    == "Health check failed"
MsgInit      == "Serial initialization failed for COM4"

\* log_error: last_error is assigned after the write to the log file, inside
\* the same try; when the write raises (written = FALSE) it keeps its value.
\* The calls made in one step find the log file in the same condition.
log_error(current, error_msg, written) ==
  IF written THEN error_msg ELSE current

\* serial_port.read(serial_port.in_waiting): the queued bytes
RECURSIVE Bytes(_)
Bytes(queue) == IF queue = <<>> THEN <<>> ELSE Head(queue) \o Bytes(Tail(queue))

\* No running thread: never started, or ended.  fatal tells an exit on the
\* error threshold from the others.
NoThread == [pc |-> "dead", buffer |-> <<>>, consecutive_errors |-> 0, fatal |-> FALSE]

NewThread == [pc |-> "start", buffer |-> <<>>, consecutive_errors |-> 0, fatal |-> FALSE]

\* Thread.is_alive()
is_alive(t) == threads[t].pc \in {"start", "run"}

\* serial_thread and serial_thread.is_alive()
ThreadAlive == serial_thread # 0 /\ is_alive(1)

\* Any access to the device (in_waiting, read) raises SerialException when
\* the handle is not open or the device is gone.
IOFails == portState # "open" \/ ~devicePresent

\* A worker thread between requests.  buffer, elapsed (time.time() -
\* start_time) and original_timeout are the locals of
\* read_from_serial_with_timeout, alive is health_status['serial_thread_alive']
\* (serial_port_connected is TRUE whenever the probe runs).  The fields from
\* outcome on record what the request observed and did; only the properties
\* read them.
IdleReq ==
  [pc |-> "idle", op |-> "none",
   buffer |-> <<>>, elapsed |-> 0, original_timeout |-> 0,
   alive |-> FALSE,
   outcome |-> "none",   \* the response
   tight |-> FALSE,      \* the timeout was tightened; tAfter: its value at exit
   tBefore |-> 0, tAfter |-> 0,
   sawErr |-> FALSE,     \* a device access raised inside the polling loop
   gotToken |-> FALSE,   \* read_from_serial_with_timeout returned a token
   waited |-> 0,         \* time.time() - start_time when it returned
   down |-> "no",        \* latest: what was down at arrival ("handle", "loop")
                         \* with the indicator attached then and ever since,
                         \* and no other request in progress then or since
   probe |-> "none",     \* health: how the probe ended
   connected |-> FALSE,  \* health: the handle was open at the check
   recov |-> 0,          \* calls of restart_serial_connection
   opens |-> 0,          \* calls of initialize_serial
   after |-> "none",     \* health: outcome of the recovery it follows
   closedBefore |-> FALSE, closeSame |-> FALSE, closeTwice |-> FALSE,
   initRet |-> "none", initHadOpen |-> FALSE,
   initOpen |-> FALSE, initStop |-> FALSE, initLogged |-> FALSE]

\* A worker thread has its response ready.  Sending it touches nothing but
\* the thread's own locals: it is taken before any other step.
Responding == \E r \in Handlers : req[r].pc = "done"

\* The requests in progress when the indicator is detached or another
\* request arrives: what they found at arrival no longer counts
Disturbed == [h \in Handlers |-> [req[h] EXCEPT !.down = "no"]]

\* timeout=2.0 in get_latest_weight_data, timeout=1.0 in health_check
Timeout(op) == IF op = "latest" THEN GetFreshTimeout ELSE HealthTimeout

\* The text functions have not been applied
NoResult == [stage |-> "none", complete |-> FALSE, token |-> <<>>, value |-> NoValue]

\* The globals when the server starts to take requests
Startup ==
  /\ \/ \* initialize_serial succeeded in __main__ and the loop was started
        /\ portState = "open"
        /\ portTimeout = OpenTimeout
        /\ devicePresent = TRUE
        /\ serial_thread = 1
        /\ threads = [t \in ThreadIds |-> IF t = 1 THEN NewThread ELSE NoThread]
        /\ last_error = "none"
     \/ \* it failed: the server runs in limited mode, serial_port is None
        /\ portState = "none"
        /\ portTimeout = 0
        /\ devicePresent = FALSE
        /\ serial_thread = 0
        /\ threads = [t \in ThreadIds |-> NoThread]
        /\ last_error \in {log_error("none", MsgInit, w) : w \in BOOLEAN}
  /\ should_stop_serial_thread = FALSE
  /\ rx = <<>>
  /\ pos = 1
  /\ req = [r \in Handlers |-> IdleReq]
  /\ lastRec = "none"

Init ==
  /\ Startup
  /\ stream = Stream
  /\ text = <<>>
  /\ result = NoResult

(* ---------------------------- the device ------------------------------- *)

\* The indicator sends its next piece.  It is queued by the driver while the
\* handle is open and lost otherwise.
DeviceEmit ==
  /\ devicePresent
  /\ ~Responding
  /\ Len(rx) < MaxPending
  /\ rx' = IF portState = "open" THEN Append(rx, stream[pos]) ELSE rx
  /\ pos' = (pos % Len(stream)) + 1
  /\ UNCHANGED <<portState, portTimeout, should_stop_serial_thread, last_error,
                 serial_thread, threads, devicePresent, req>>
  /\ UNCHANGED lastRec
  /\ UNCHANGED fixedVars

\* The indicator is detached (or its port taken away); queued bytes are lost.
DeviceUnplug ==
  /\ devicePresent
  /\ ~Responding
  /\ devicePresent' = FALSE
  /\ rx' = <<>>
  /\ req' = Disturbed
  /\ UNCHANGED <<portState, portTimeout, should_stop_serial_thread, last_error,
                 serial_thread, threads, pos>>
  /\ UNCHANGED lastRec
  /\ UNCHANGED fixedVars

DevicePlug ==
  /\ ~devicePresent
  /\ ~Responding
  /\ devicePresent' = TRUE
  /\ UNCHANGED <<portState, portTimeout, should_stop_serial_thread, last_error,
                 serial_thread, threads, rx, pos, req>>
  /\ UNCHANGED lastRec
  /\ UNCHANGED fixedVars

(* ----------------------- read_serial_data_continuous ------------------- *)

\* The thread has returned.  Only of the thread serial_thread refers to is
\* it kept how it ended.
Exited(t, fatal) == [NoThread EXCEPT !.fatal = (fatal /\ t = 1)]

\* Entry of the thread: the availability check, then buffer = "" and
\* consecutive_errors = 0.
LoopStart(t) ==
  /\ threads[t].pc = "start"
  /\ ~Responding
  /\ IF portState # "open"
     THEN /\ \E written \in BOOLEAN :
               last_error' = log_error(last_error, MsgLoopPort, written)
          /\ threads' = [threads EXCEPT ![t] = Exited(t, FALSE)]
     ELSE /\ last_error' = last_error
          /\ threads' = [threads EXCEPT ![t] =
               [pc |-> "run", buffer |-> <<>>, consecutive_errors |-> 0,
                fatal |-> FALSE]]
  /\ UNCHANGED <<portState, portTimeout, should_stop_serial_thread,
                 serial_thread, devicePresent, rx, pos, req>>
  /\ UNCHANGED lastRec
  /\ UNCHANGED fixedVars

\* One pass of the while loop, from the test of the stop signal on.
LoopIterate(t) ==
  /\ threads[t].pc = "run"
  /\ ~Responding
  /\ \E buffer \in {threads[t].buffer \o Bytes(rx)} :
     LET th == threads[t]
         errors == th.consecutive_errors + 1
     IN
       IF should_stop_serial_thread
       THEN /\ threads' = [threads EXCEPT ![t] = Exited(t, FALSE)]
            /\ UNCHANGED <<rx, last_error>>
       ELSE IF IOFails
       THEN \* serial_operation logs and re-raises; except SerialException
            /\ rx' = rx
            /\ \E written \in BOOLEAN :
                 IF errors >= MaxConsecutiveErrors
                 THEN /\ last_error' = log_error(log_error(last_error, MsgLoopOp, written),
                                                 MsgTooMany, written)
                      /\ threads' = [threads EXCEPT ![t] = Exited(t, TRUE)]
                 ELSE /\ last_error' = log_error(last_error, MsgLoopOp, written)
                      /\ threads' = [threads EXCEPT ![t].consecutive_errors = errors]
       ELSE IF rx = <<>>
       THEN \* in_waiting = 0: nothing but the sleep
            UNCHANGED <<threads, rx, last_error>>
       ELSE /\ Len(buffer) <= MaxBuf
            /\ rx' = <<>>
            /\ last_error' = last_error
            /\ IF has_complete_reading(buffer) /\ extract_weight_reading(buffer) # <<>>
               THEN threads' = [threads EXCEPT ![t].buffer = <<>>,
                                               ![t].consecutive_errors = 0]
               ELSE threads' = [threads EXCEPT ![t].buffer = buffer]
  /\ UNCHANGED <<portState, portTimeout, should_stop_serial_thread,
                 serial_thread, devicePresent, pos, req>>
  /\ UNCHANGED lastRec
  /\ UNCHANGED fixedVars

(* --------------------------- request handlers -------------------------- *)

\* clean_serial_buffer: drains the receive queue of an open port; an error
\* is logged by serial_operation and again by the except clause.
clean_serial_buffer(port, present, queue, err, written) ==
  IF port # "open" THEN [rx |-> queue, err |-> err]
  ELSE IF ~present
  THEN [rx |-> queue,
        err |-> log_error(log_error(err, MsgClearOp, written), MsgClear, written)]
  ELSE [rx |-> <<>>, err |-> err]

\* The finally clause of read_from_serial_with_timeout
RestoredTimeoutHardCoded(original_timeout) == 1000

RestoredTimeout(original_timeout) == original_timeout

\* get_latest_weight_data: the else branch of "if raw_data:"
NeedsRecoveryAlways(raw_data) == TRUE

NeedsRecovery(raw_data) == raw_data = <<>>

\* health_check: "if serial_port and serial_port.is_open"
PortConnectedAnyHandle(port) == port # "none"

PortConnected(port) == port = "open"

\* health_check: "Determine overall status"
HealthStatusNoThread(connected, responding, alive) ==
  IF connected /\ responding THEN "healthy"
  ELSE IF connected THEN "degraded" ELSE "unhealthy"

HealthStatus(connected, responding, alive) ==
  IF connected /\ responding /\ alive THEN "healthy"
  ELSE IF connected THEN "degraded" ELSE "unhealthy"

\* close_serial, on the globals it reads and writes
close_serial_logging(s) ==
  [port |-> IF s.port = "open" THEN "closed" ELSE s.port,
   stop |-> TRUE,
   err  |-> IF s.port = "open" THEN s.err ELSE "Error closing serial port"]

close_serial(s) ==
  [port |-> IF s.port = "open" THEN "closed" ELSE s.port,
   stop |-> TRUE,
   err  |-> s.err]

\* initialize_serial: an open handle is closed first; serial.Serial either
\* returns an open port, and the stop signal is cleared, or raises, which is
\* logged and leaves serial_port referring to the handle it had
initialize_serial(port, present, stop, err, written) ==
  IF present
  THEN [ret |-> TRUE, port |-> "open", stop |-> FALSE, err |-> err]
  ELSE [ret |-> FALSE,
        port |-> IF port = "none" THEN "none" ELSE "closed",
        stop |-> stop,
        err |-> log_error(err, MsgInit, written)]

\* restart_serial_connection up to the join: should_stop_serial_thread =
\* True, and the test that guards the join.  The worker thread goes on to
\* wait for the thread or straight to close_serial.
BeginRecovery(q) ==
  [q EXCEPT !.pc = IF ThreadAlive THEN "rc_join" ELSE "rc_close",
            !.recov = q.recov + 1]

\* What of the session is down while the indicator is attached and no
\* request is in progress: the handle ("if not serial_port or not
\* serial_port.is_open"), or the loop thread only
SessionDown ==
  IF ~devicePresent \/ (\E h \in Handlers : req[h].pc # "idle") THEN "no"
  ELSE IF portState # "open" THEN "handle"
  ELSE IF ~ThreadAlive THEN "loop" ELSE "no"

\* GET /api/weight/latest arrives: clean_serial_buffer()
StartLatest(r) ==
  /\ req[r].pc = "idle"
  /\ ~Responding
  /\ \E written \in BOOLEAN :
       LET c == clean_serial_buffer(portState, devicePresent, rx, last_error, written)
       IN  /\ rx' = c.rx
           /\ last_error' = c.err
  /\ req' = [Disturbed EXCEPT ![r] = [IdleReq EXCEPT !.pc = "ro_enter", !.op = "latest",
                                                     !.down = SessionDown]]
  /\ UNCHANGED <<portState, portTimeout, should_stop_serial_thread,
                 serial_thread, threads, devicePresent, pos>>
  /\ lastRec' = "none"
  /\ UNCHANGED fixedVars

\* GET /api/weight/health arrives: the port and thread checks
StartHealth(r) ==
  /\ req[r].pc = "idle"
  /\ ~Responding
  /\ IF PortConnected(portState)
     THEN req' = [Disturbed EXCEPT ![r] = [IdleReq EXCEPT
                    !.pc = "ro_enter", !.op = "health", !.connected = TRUE,
                    !.alive = ThreadAlive, !.after = lastRec]]
     ELSE req' = [Disturbed EXCEPT ![r] = [IdleReq EXCEPT
                    !.pc = "done", !.op = "health", !.after = lastRec,
                    !.outcome = HealthStatus(FALSE, FALSE, FALSE)]]
  /\ UNCHANGED <<portState, portTimeout, should_stop_serial_thread, last_error,
                 serial_thread, threads, devicePresent, rx, pos>>
  /\ lastRec' = "none"
  /\ UNCHANGED fixedVars

\* POST /api/weight/restart arrives: restart_serial_connection() is entered
StartRestart(r) ==
  /\ req[r].pc = "idle"
  /\ ~Responding
  /\ should_stop_serial_thread' = TRUE
  /\ req' = [Disturbed EXCEPT ![r] =
                     BeginRecovery([IdleReq EXCEPT !.op = "restart"])]
  /\ UNCHANGED <<portState, portTimeout, last_error, serial_thread, threads,
                 devicePresent, rx, pos>>
  /\ lastRec' = "none"
  /\ UNCHANGED fixedVars

\* read_from_serial_with_timeout up to the polling loop: the check of the
\* port, which raises SerialException, and the tightening of the timeout
ReadOnceEnter(r) ==
  /\ req[r].pc = "ro_enter"
  /\ ~Responding
  /\ IF portState # "open"
       THEN /\ portTimeout' = portTimeout
            /\ IF req[r].op = "latest"
               THEN \* except SerialException: restart_serial_connection()
                    /\ last_error' = last_error
                    /\ should_stop_serial_thread' = TRUE
                    /\ req' = [req EXCEPT ![r] =
                                BeginRecovery([req[r] EXCEPT !.outcome = "PortError"])]
               ELSE \* except Exception: log_error("Health check failed")
                    /\ \E written \in BOOLEAN :
                         last_error' = log_error(last_error, MsgHealth, written)
                    /\ should_stop_serial_thread' = should_stop_serial_thread
                    /\ req' = [req EXCEPT ![r].pc = "done", ![r].probe = "raised",
                                 ![r].outcome = HealthStatus(req[r].connected, FALSE,
                                                             req[r].alive)]
       ELSE /\ portTimeout' = ShortTimeout
            /\ last_error' = last_error
            /\ should_stop_serial_thread' = should_stop_serial_thread
            /\ req' = [req EXCEPT ![r].pc = "ro_poll",
                                  ![r].original_timeout = portTimeout,
                                  ![r].tight = TRUE, ![r].tBefore = portTimeout,
                                  ![r].buffer = <<>>, ![r].elapsed = 0]
  /\ UNCHANGED <<portState, serial_thread, threads, devicePresent, rx, pos>>
  /\ lastRec' = IF portState # "open" /\ req[r].op = "latest" THEN "none" ELSE lastRec
  /\ UNCHANGED fixedVars

\* The while condition of the polling loop: (time.time() - start_time) < timeout
WithinDeadlineShort(elapsed, timeout) == elapsed + 1 < timeout

WithinDeadline(elapsed, timeout) == elapsed < timeout

\* What one iteration of the polling loop does: "token" when it returns
\* cleaned_data, "error" when a device access raises (except: continue),
\* "sleep" otherwise
PollResult(buffer) ==
  IF IOFails THEN "error"
  ELSE IF rx # <<>> /\ has_complete_reading(buffer)
          /\ extract_weight_reading(buffer) # <<>>
  THEN "token" ELSE "sleep"

\* One iteration of the polling loop.  When it returns a token, or the
\* deadline has passed at the next test of the while condition, the call
\* ends: the finally clause restores the timeout and the caller handles the
\* value, up to its response or its call of restart_serial_connection.
ReadOncePoll(r) ==
  /\ req[r].pc = "ro_poll"
  /\ ~Responding
  /\ \E buffer \in {IF IOFails THEN req[r].buffer ELSE req[r].buffer \o Bytes(rx)} :
     \E res \in {PollResult(buffer)} :
     \E raw \in {IF res = "token" THEN extract_weight_reading(buffer) ELSE <<>>} :
     LET q       == req[r]
         elapsed == q.elapsed + 1
         saw     == q.sawErr \/ (res = "error" /\ q.op = "latest")
         ended   == [q EXCEPT !.tAfter = RestoredTimeout(q.original_timeout),
                              !.gotToken = (res = "token"), !.sawErr = saw,
                              !.waited = elapsed,
                              !.buffer = <<>>, !.elapsed = 0,
                              !.original_timeout = 0]
     IN
     /\ rx' = IF IOFails THEN rx ELSE <<>>
     /\ IF res # "token" /\ WithinDeadline(elapsed, Timeout(q.op))
        THEN \* the loop goes on
             /\ req' = [req EXCEPT ![r].buffer = buffer, ![r].elapsed = elapsed,
                                   ![r].sawErr = saw]
             /\ UNCHANGED <<portTimeout, should_stop_serial_thread>>
        ELSE /\ portTimeout' = RestoredTimeout(q.original_timeout)
             /\ IF q.op = "health"
                THEN /\ req' = [req EXCEPT ![r] = [ended EXCEPT !.pc = "done",
                                  !.probe = IF res = "token" THEN "token" ELSE "timeout",
                                  !.outcome = HealthStatus(q.connected, res = "token",
                                                           q.alive)]]
                     /\ UNCHANGED should_stop_serial_thread
                ELSE IF NeedsRecovery(raw)
                THEN /\ should_stop_serial_thread' = TRUE
                     /\ req' = [req EXCEPT ![r] =
                                 BeginRecovery([ended EXCEPT !.outcome = "NoData"])]
                ELSE /\ req' = [req EXCEPT ![r] = [ended EXCEPT !.pc = "done",
                                  !.outcome = IF parse_weight_data(raw).ok
                                              THEN "Success" ELSE "ParseFailure"]]
                     /\ UNCHANGED should_stop_serial_thread
     /\ UNCHANGED <<portState, last_error, serial_thread, threads, devicePresent, pos>>
     /\ lastRec' = IF (res = "token" \/ ~WithinDeadline(elapsed, Timeout(q.op)))
                       /\ q.op = "latest" /\ NeedsRecovery(raw)
                    THEN "none" ELSE lastRec
  /\ UNCHANGED fixedVars

(* ----------------------- restart_serial_connection --------------------- *)

\* serial_thread.join(timeout=2.0) returns: the thread has ended, or the two
\* seconds have passed with the thread still running (nothing bounds the
\* time the thread takes to reach its test of the stop signal)
RecoveryJoin(r) ==
  /\ req[r].pc = "rc_join"
  /\ ~Responding
  /\ req' = [req EXCEPT ![r].pc = "rc_close", ![r].sawErr = FALSE]
  /\ UNCHANGED <<portState, portTimeout, should_stop_serial_thread, last_error,
                 serial_thread, threads, devicePresent, rx, pos>>
  /\ UNCHANGED lastRec
  /\ UNCHANGED fixedVars

\* close_serial()
CloseSerial(r) ==
  /\ req[r].pc = "rc_close"
  /\ ~Responding
  /\ LET before == [port |-> portState, stop |-> should_stop_serial_thread,
                    err |-> last_error]
         after  == close_serial(before)
     IN  /\ portState' = after.port
         /\ should_stop_serial_thread' = after.stop
         /\ last_error' = after.err
         /\ req' = [req EXCEPT ![r].pc = "rc_open", ![r].sawErr = FALSE,
                            ![r].closedBefore = (before.port # "open" /\ before.stop),
                            ![r].closeSame = (after = before),
                            ![r].closeTwice = (close_serial(after) = after)]
  /\ rx' = <<>>
  /\ UNCHANGED <<portTimeout, serial_thread, threads, devicePresent, pos>>
  /\ lastRec' = "none"
  /\ UNCHANGED fixedVars

\* Places for a thread that serial_thread stops referring to
FreeSlots == {t \in ThreadIds \ {1} : ~is_alive(t)}

\* threads after serial_thread = threading.Thread(...); serial_thread.start():
\* a thread that is still running stays, with no reference to it
StartThread ==
  IF is_alive(1)
  THEN [threads EXCEPT ![Min(FreeSlots)] = threads[1], ![1] = NewThread]
  ELSE [threads EXCEPT ![1] = NewThread]

\* time.sleep(1); initialize_serial('COM4', 9600) and, when it returned True,
\* should_stop_serial_thread = False and the start of a new loop thread.
\* The recovery and the request end.
InitializeSerial(r) ==
  /\ req[r].pc = "rc_open"
  /\ ~Responding
  /\ devicePresent /\ is_alive(1) => FreeSlots # {}
  /\ \E written \in BOOLEAN :
     \E i \in {initialize_serial(portState, devicePresent,
                                 should_stop_serial_thread, last_error, written)} :
       LET q == req[r]
           stop == IF i.ret THEN FALSE ELSE i.stop
       IN  /\ portState' = i.port
           /\ last_error' = i.err
           /\ should_stop_serial_thread' = stop
           /\ portTimeout' = IF i.ret THEN OpenTimeout ELSE portTimeout
           /\ threads' = IF i.ret THEN StartThread ELSE threads
           /\ serial_thread' = IF i.ret THEN 1 ELSE serial_thread
           /\ req' = [req EXCEPT ![r] = [q EXCEPT
                        !.pc = "done",
                        !.opens = q.opens + 1,
                        !.initHadOpen = (portState = "open"),
                        !.initRet = IF i.ret THEN "ok" ELSE "fail",
                        !.initOpen = (i.port = "open"),
                        !.initStop = i.stop,
                        !.initLogged = (i.err = MsgInit),
                        !.closedBefore = FALSE, !.closeSame = FALSE,
                        !.closeTwice = FALSE,
                        !.outcome = IF q.op = "restart"
                                    THEN (IF i.ret THEN "ok" ELSE "failed")
                                    ELSE q.outcome]]
  /\ rx' = <<>>
  /\ UNCHANGED <<devicePresent, pos>>
  /\ lastRec' = IF req[r].op # "latest" THEN "none"
              ELSE IF devicePresent THEN "ok" ELSE "failed"
  /\ UNCHANGED fixedVars

\* The response is sent and the worker thread is free again
Finish(r) ==
  /\ req[r].pc = "done"
  /\ req' = [req EXCEPT ![r] = IdleReq]
  /\ UNCHANGED <<portState, portTimeout, should_stop_serial_thread, last_error,
                 serial_thread, threads, devicePresent, rx, pos>>
  /\ UNCHANGED lastRec
  /\ UNCHANGED fixedVars

(* --------------------------- specifications ---------------------------- *)

\* A request arrives at a free worker thread of H
Arrive(H) == \E r \in H : StartLatest(r) \/ StartHealth(r) \/ StartRestart(r)

\* A worker thread of H takes the next step of the request it is serving
Serve(H) ==
  \E r \in H :
    \/ ReadOnceEnter(r)
    \/ ReadOncePoll(r)
    \/ RecoveryJoin(r)
    \/ CloseSerial(r)
    \/ InitializeSerial(r)

Respond(H) == \E r \in H : Finish(r)

\* A continuous-loop thread takes a step
Loop == \E t \in ThreadIds : LoopStart(t) \/ LoopIterate(t)

Device == DeviceEmit \/ DeviceUnplug \/ DevicePlug

\* The steps of the server when the worker threads of H take the requests
NextOf(H) == Arrive(H) \/ Serve(H) \/ Respond(H) \/ Loop \/ Device

Next == NextOf(Handlers)

Spec == Init /\ [][Next]_vars

\* The server when every request is taken by the same worker thread
OneWorker == {"h1"}

NextOne == NextOf(OneWorker)

\* A worker thread is at the test of the while condition of the polling loop
PollReady(r) == ~Responding /\ req[r].pc = "ro_poll"

\* The steps of a request outside the polling loop
ServeRest(H) ==
  \E r \in H :
    ReadOnceEnter(r) \/ RecoveryJoin(r) \/ CloseSerial(r) \/ InitializeSerial(r)

\* Started threads are scheduled: a worker thread that is serving a request
\* and a loop thread that is running keep taking steps (for the polling
\* loop, whose step is possible exactly when PollReady, weak fairness is
\* written out).  Nothing obliges a client to send a request or the device
\* to send a byte.
FairSpec ==
  /\ Init /\ [][NextOne]_vars
  /\ WF_vars(Respond(OneWorker))
  /\ WF_vars(ServeRest(OneWorker))
  /\ \A r \in OneWorker : []<>(~PollReady(r)) \/ []<><<ReadOncePoll(r)>>_vars
  /\ WF_vars(Loop)


(* ----------------------- the text functions alone ---------------------- *)

\* The characters of the texts of every length up to MaxText: signs, digits,
\* a stable and an unstable status letter, and a character of no token
FrameChars == {"+", "-", "0", "1", "B", "g", " "}

\* The digits of the tokens of every status letter
TokenDigits == {"0", "1", "2", "9"}

\* The texts of S of length n and less
TextsUpTo(S, lo, n) == UNION {[1..k -> S] : k \in lo..n}

\* What the functions are applied to: every short text, and every token of
\* up to MaxDigits digits with every status letter
Texts ==
  TextsUpTo(FrameChars, 0, MaxText)
  \cup {<<sg>> \o ds \o <<l>> :
          sg \in Signs, ds \in TextsUpTo(TokenDigits, 1, MaxDigits), l \in Letters}

\* has_complete_reading, extract_weight_reading and parse_weight_data are
\* called with the text
ApplyText ==
  /\ result.stage = "none"
  /\ result' = [stage    |-> "done",
                complete |-> has_complete_reading(text),
                token    |-> extract_weight_reading(text),
                value    |-> parse_weight_data(text)]
  /\ UNCHANGED <<portState, portTimeout, should_stop_serial_thread, last_error,
                 serial_thread, threads, devicePresent, rx, pos, req, lastRec,
                 stream, text>>

\* The server in limited mode, with nothing running, and a text to process
TextInit ==
  /\ Startup
  /\ serial_thread = 0
  /\ last_error = "none"
  /\ stream = Stream
  /\ text \in Texts
  /\ result = NoResult

TextSpec == TextInit /\ [][ApplyText]_vars

(* ------------------------ a stream in parts of a frame ------------------- *)

\* One reading over and over, each frame reaching the driver in three parts
FrameParts == << <<"+", "1">>, <<"2">>, <<"B">> >>

\* The server has started with the indicator attached
PieceInit ==
  /\ Startup
  /\ serial_thread = 1
  /\ stream = FrameParts
  /\ text = <<>>
  /\ result = NoResult

\* The steps of the server with one worker thread while the indicator stays
\* attached
NextAttached ==
  \/ Arrive(OneWorker)
  \/ Serve(OneWorker)
  \/ Respond(OneWorker)
  \/ Loop
  \/ DeviceEmit

PieceSpec == PieceInit /\ [][NextAttached]_vars

(* ------------------------- the loop thread alone ----------------------- *)

\* The steps of the server while no request arrives: the loop thread reads
\* the parts of the frames, and the indicator may be unplugged and plugged
NextIdle == Loop \/ Device

LoopSpec == PieceInit /\ [][NextIdle]_vars

(* ------------------------------ properties ----------------------------- *)

\* A worker thread whose call of read_from_serial_with_timeout has exited
CallExited(r) == req[r].tight /\ req[r].pc # "ro_poll"

\* C1: every call of read_from_serial_with_timeout that tightened the read
\* timeout leaves it, once the call has exited, at the value it had
\* immediately before the call, whether a token was returned, the deadline
\* passed, or device accesses raised on the way.
C1_TimeoutRestored ==
  \A r \in Handlers : CallExited(r) => req[r].tAfter = req[r].tBefore

\* A call in which device accesses raised has exited at its deadline, and
\* the timeout is the one the port was opened with.
C1_Witness ==
  \E r \in Handlers :
    /\ CallExited(r) /\ req[r].sawErr /\ ~req[r].gotToken
    /\ req[r].tBefore = OpenTimeout /\ req[r].tAfter = OpenTimeout
    /\ portTimeout = OpenTimeout

\* Worker threads inside the polling loop of read_from_serial_with_timeout
Polling == {r \in Handlers : req[r].pc = "ro_poll"}

\* C2: two calls of read_from_serial_with_timeout by concurrent requests
\* serialize: in no reachable state are two calls inside their polling loop.
C2_PollsSerialize == Cardinality(Polling) <= 1

\* Some loop thread has not returned yet
LoopRunning == \E t \in ThreadIds : is_alive(t)

\* C3: whenever restart_serial_connection closes (close_serial) or reopens
\* (initialize_serial) the port, no continuous-loop thread is running and no
\* read_from_serial_with_timeout call is in its polling loop.
C3_RecoveryAlone ==
  [][\A r \in Handlers :
       CloseSerial(r) \/ InitializeSerial(r) => ~LoopRunning /\ Polling = {}]_vars

\* C4: /api/weight/latest reports NoData only when the deadline passed with
\* no token and no device error, PortError whenever the handle was not open
\* at entry or a device access raised while polling, and ParseFailure only
\* when a token was extracted.
C4_FaithfulOutcomes ==
  \A r \in Handlers :
    req[r].op = "latest" /\ req[r].outcome # "none" =>
      /\ req[r].outcome = "NoData" => ~req[r].gotToken /\ ~req[r].sawErr
      /\ req[r].sawErr => req[r].outcome = "PortError"
      /\ req[r].outcome = "ParseFailure" => req[r].gotToken

\* A /api/weight/health request about to respond
HealthDone(r) == req[r].pc = "done" /\ req[r].op = "health"

\* C5: the status of /api/weight/health is "healthy" exactly when the handle
\* was open, the loop thread alive and the probe returned a token, "degraded"
\* exactly when the handle was open and the probe or the thread check failed,
\* and "unhealthy" exactly when the handle was not open.
C5_HealthStatusOfChecks ==
  \A r \in Handlers :
    HealthDone(r) =>
      LET q == req[r]
          all == q.connected /\ q.alive /\ q.probe = "token"
      IN  /\ q.outcome = "healthy" <=> all
          /\ q.outcome = "degraded" <=> q.connected /\ ~all
          /\ q.outcome = "unhealthy" <=> ~q.connected

\* The handle is open and the probe returned a token, but the loop thread
\* is not alive: degraded.
C5_Witness ==
  \E r \in Handlers :
    /\ HealthDone(r) /\ req[r].connected /\ req[r].probe = "token"
    /\ ~req[r].alive /\ req[r].outcome = "degraded"

\* C6, as stated: after a failed read_from_serial_with_timeout in a request
\* has triggered a recovery and the recovery has finished, the next
\* /api/weight/health reports "unhealthy" if the reopen failed and "healthy"
\* if the reopen and the restart of the loop succeeded.
C6_HealthAfterRecovery ==
  \A r \in Handlers :
    HealthDone(r) =>
      /\ req[r].after = "failed" => req[r].outcome = "unhealthy"
      /\ req[r].after = "ok" => req[r].outcome = "healthy"

\* C6, amended: it reports "unhealthy" if the reopen failed; if the reopen
\* and the restart of the loop succeeded it reports "healthy" or "degraded",
\* "healthy" exactly when its own probe returned a token and the loop thread
\* was alive at the check.
C6_HealthAfterRecoveryProbe ==
  \A r \in Handlers :
    HealthDone(r) =>
      /\ req[r].after = "failed" => req[r].outcome = "unhealthy"
      /\ req[r].after = "ok" =>
           /\ req[r].outcome \in {"healthy", "degraded"}
           /\ req[r].outcome = "healthy" <=> req[r].probe = "token" /\ req[r].alive

\* The recovery succeeded, the loop thread is alive, and the probe of the
\* health request that follows reaches its deadline: degraded.
C6_Witness ==
  \E r \in Handlers :
    /\ HealthDone(r) /\ req[r].after = "ok" /\ req[r].alive
    /\ req[r].probe = "timeout" /\ req[r].outcome = "degraded"

\* A worker thread is inside restart_serial_connection
Recovering == \E r \in Handlers : req[r].pc \in {"rc_join", "rc_close", "rc_open"}

\* C7: whenever the continuous loop has exited on the error threshold, a
\* recovery run follows, whether or not a request arrives.
C7_FatalExitRecovers == threads[1].fatal ~> Recovering

\* C8: a /api/weight/latest request runs restart_serial_connection exactly
\* once, with one call of initialize_serial, when its read timed out or the
\* port was not open, and not at all when the read produced a token; a
\* /api/weight/restart request calls initialize_serial exactly once.
C8_OneRecoveryPerTrigger ==
  \A r \in Handlers :
    /\ req[r].recov <= 1 /\ req[r].opens <= req[r].recov
    /\ req[r].pc = "done" /\ req[r].op = "latest" =>
         IF req[r].gotToken
         THEN req[r].recov = 0 /\ req[r].opens = 0
         ELSE req[r].recov = 1 /\ req[r].opens = 1
    /\ req[r].pc = "done" /\ req[r].op = "restart" =>
         req[r].recov = 1 /\ req[r].opens = 1

\* A request whose read met a port that was not open responds after one
\* recovery with one call of initialize_serial.
C8_Witness ==
  \E r \in Handlers :
    /\ req[r].pc = "done" /\ req[r].op = "latest"
    /\ req[r].outcome = "PortError" /\ ~req[r].gotToken
    /\ req[r].recov = 1 /\ req[r].opens = 1

\* C9: close_serial on a session that is already closed (handle not open,
\* stop signal set) changes nothing, and a second call right after a first
\* changes nothing.
C9_CloseIdempotent ==
  \A r \in Handlers :
    req[r].pc = "rc_open" =>
      /\ req[r].closedBefore => req[r].closeSame
      /\ req[r].closeTwice

\* close_serial has run on a session that was already closed.
C9_Witness ==
  \E r \in Handlers :
    /\ req[r].pc = "rc_open" /\ req[r].closedBefore /\ req[r].closeSame
    /\ portState # "open" /\ should_stop_serial_thread

\* C10: when initialize_serial acquires the device it returns True, the
\* handle is open, the stop signal is cleared and the loop started next has
\* its error counter at 0; when it cannot, it returns False, the handle is not
\* open (also when one was open before the call) and the error is in
\* last_error.
C10_OpenOutcomes ==
  \A r \in Handlers :
    /\ req[r].initRet = "ok" =>
         /\ req[r].initOpen /\ ~req[r].initStop
         /\ threads[1].consecutive_errors = 0
    /\ req[r].initRet = "fail" =>
         /\ ~req[r].initOpen
         /\ req[r].initLogged

\* C11: a call of read_from_serial_with_timeout on an open port ends, and
\* when it returns the timeout signal the time since its start is at least
\* the timeout and less than one polling iteration more, also when every
\* device access in the loop raised.  Time is counted in polling iterations.
C11_BoundedWait ==
  /\ [](\A r \in Handlers :
          CallExited(r) /\ ~req[r].gotToken =>
            /\ req[r].waited >= Timeout(req[r].op)
            /\ req[r].waited < Timeout(req[r].op) + 1)
  /\ [](\A r \in Handlers : CallExited(r) => req[r].waited <= Timeout(req[r].op))
  /\ \A r \in Handlers : (req[r].pc = "ro_poll") ~> (req[r].pc # "ro_poll")

\* A call in which every device access raised has returned the timeout
\* signal exactly at its deadline.
C11_Witness ==
  \E r \in Handlers :
    /\ CallExited(r) /\ req[r].op = "latest" /\ req[r].sawErr
    /\ ~req[r].gotToken /\ req[r].waited = GetFreshTimeout

\* A text made of a sign, digits and one letter, and nothing else
IsToken(s) ==
  /\ Len(s) >= 3
  /\ s[1] \in Signs
  /\ \A k \in 2..(Len(s) - 1) : s[k] \in DigitChars
  /\ s[Len(s)] \in Letters

\* The characters i to j of s are such a text
Occurs(s, i, j) == 1 <= i /\ i <= j /\ j <= Len(s) /\ IsToken(SubSeq(s, i, j))

HasToken(s) == \E i, j \in 1..Len(s) : Occurs(s, i, j)

\* The functions have been applied to the text
Applied == result.stage = "done"

\* C12: parse_weight_data returns the "no value" result for every text with
\* no substring of the shape sign, digits, letter, and for every token whose
\* digit run between the sign and the decimal count digit is empty.
C12_RejectsEmptyRun ==
  Applied =>
    /\ ~HasToken(text) => ~result.value.ok
    /\ IsToken(text) /\ Len(text) = 3 => ~result.value.ok

\* The number a run of digits denotes
RunValue(run) ==
  LET f[i \in 0..Len(run)] == IF i = 0 THEN 0 ELSE 10 * f[i - 1] + DigitVal(run[i])
  IN  f[Len(run)]

\* The decimal digits of a natural number
RECURSIVE NatToDigits(_)
NatToDigits(n) ==
  LET last == CASE n % 10 = 0 -> "0" [] n % 10 = 1 -> "1" [] n % 10 = 2 -> "2"
                [] n % 10 = 3 -> "3" [] n % 10 = 4 -> "4" [] n % 10 = 5 -> "5"
                [] n % 10 = 6 -> "6" [] n % 10 = 7 -> "7" [] n % 10 = 8 -> "8"
                [] n % 10 = 9 -> "9"
  IN  IF n < 10 THEN <<last>> ELSE Append(NatToDigits(n \div 10), last)

\* s with zeros in front up to length n
PadZeros(s, n) == [i \in 1..(n - Len(s)) |-> "0"] \o s

Abs(n) == IF n < 0 THEN 0 - n ELSE n

\* C13: for a token made of a sign, a digit run, a decimal count digit d and
\* a status letter, parse_weight_data returns the number the run denotes,
\* negated after "-", with d decimal places, and the token itself; writing
\* the magnitude back in digits, zero-padded, gives the run again.
C13_DecodesRun ==
  Applied /\ IsToken(text) /\ Len(text) >= 4 =>
    LET n   == Len(text)
        run == SubSeq(text, 2, n - 2)
        v   == result.value
    IN  /\ v.ok
        /\ v.num = IF text[1] = "-" THEN 0 - RunValue(run) ELSE RunValue(run)
        /\ v.decimals = DigitVal(text[n - 1])
        /\ v.raw = text
        /\ Len(NatToDigits(Abs(v.num))) <= Len(run)
        /\ PadZeros(NatToDigits(Abs(v.num)), Len(run)) = run

\* A negative token with zeros in front and others behind is decoded.
C13_Witness ==
  /\ Applied /\ IsToken(text) /\ Len(text) = 5
  /\ text[1] = "-" /\ text[2] = "0" /\ text[3] = "9" /\ text[4] = "2"
  /\ result.value.num = 0 - 9 /\ result.value.decimals = 2

\* C14, as stated: the stability flag of a decodable token is true when its
\* status character is 'B' or 'C' and false for any other letter.
C14_StableLetters ==
  Applied /\ IsToken(text) =>
    (result.value.stable <=> text[Len(text)] \in {"B", "C"})

\* C14, amended: the flag is true when the status character is 'B', 'C', 'b'
\* or 'c' (it is compared in upper case) and false for any other letter.
C14_StableLettersAnyCase ==
  Applied /\ IsToken(text) =>
    /\ result.value.ok
    /\ result.value.stable <=> text[Len(text)] \in {"B", "C", "b", "c"}

\* A token with the status letter 'c' is decoded as stable.
C14_Witness ==
  /\ Applied /\ IsToken(text) /\ Len(text) >= 4
  /\ text[Len(text)] = "c" /\ result.value.ok /\ result.value.stable

\* C16: extract_weight_reading returns the leftmost substring made of a
\* sign, digits and a letter, that one alone when there are several, and no
\* token exactly when has_complete_reading is false.
C16_FirstOnly ==
  Applied =>
    /\ result.complete <=> HasToken(text)
    /\ result.token = <<>> <=> ~result.complete
    /\ result.complete =>
         \E i, j \in 1..Len(text) :
           /\ Occurs(text, i, j)
           /\ result.token = SubSeq(text, i, j)
           /\ \A i2 \in 1..(i - 1), j2 \in 1..Len(text) : ~Occurs(text, i2, j2)

\* A text with two tokens gives the first.
C16_Witness ==
  /\ Applied /\ Len(text) = 6
  /\ Occurs(text, 1, 3) /\ Occurs(text, 4, 6)
  /\ SubSeq(text, 1, 3) # SubSeq(text, 4, 6)
  /\ result.token = SubSeq(text, 1, 3)

\* C15: in the continuous loop the accumulation buffer is empty at the end
\* of every iteration, whether or not a token was found: no partial data is
\* carried into the next read.
C15_BufferCleared == \A t \in ThreadIds : threads[t].buffer = <<>>

\* What the indicator sends, over as many periods as a token can span
Sent == Bytes(stream) \o Bytes(stream) \o Bytes(stream)

\* tok is a run of adjacent characters of s
IsSubstring(tok, s) ==
  \E i \in 1..(Len(s) - Len(tok) + 1) : SubSeq(s, i, i + Len(tok) - 1) = tok

\* The token loop thread t decodes in the iteration it is about to make
LoopToken(t) ==
  IF ~should_stop_serial_thread /\ ~IOFails /\ rx # <<>>
  THEN extract_weight_reading(threads[t].buffer \o Bytes(rx))
  ELSE <<>>

\* The token the call of worker thread r returns in the iteration it is
\* about to make
PollToken(r) ==
  IF ~IOFails /\ PollResult(req[r].buffer \o Bytes(rx)) = "token"
  THEN extract_weight_reading(req[r].buffer \o Bytes(rx))
  ELSE <<>>

\* C20: every token read_from_serial_with_timeout returns and every token
\* the continuous loop decodes is a run of adjacent characters of what the
\* indicator sent.
C20_TokensWereSent ==
  [][/\ \A t \in ThreadIds : LoopIterate(t) => IsSubstring(LoopToken(t), Sent)
     /\ \A r \in Handlers : ReadOncePoll(r) => IsSubstring(PollToken(r), Sent)]_vars

\* C17: a recovery sets the stop signal, waits for the loop thread, closes
\* the device, and attempts the reopen, in this order; it starts a new loop
\* thread exactly when the reopen succeeded and reports success exactly
\* then; after a failed reopen no loop thread is started and the stop signal
\* is still set.
C17_RecoveryInOrder ==
  [][\A r \in Handlers :
       /\ req'[r].recov > req[r].recov =>
            /\ should_stop_serial_thread'
            /\ req'[r].pc = IF ThreadAlive THEN "rc_join" ELSE "rc_close"
       /\ RecoveryJoin(r) => req'[r].pc = "rc_close"
       /\ CloseSerial(r) => portState' # "open" /\ req'[r].pc = "rc_open"
       /\ InitializeSerial(r) =>
            /\ req'[r].pc = "done"
            /\ (portState' = "open") <=>
                 (threads' # threads /\ threads'[1] = NewThread /\ serial_thread' = 1)
            /\ req[r].op = "restart" =>
                 (req'[r].outcome = "ok" <=> portState' = "open")
            /\ portState' # "open" =>
                 threads' = threads /\ should_stop_serial_thread']_vars

\* A step of health_check in worker thread r
HealthStep(r) ==
  \/ StartHealth(r)
  \/ req[r].op = "health" /\ (ReadOnceEnter(r) \/ ReadOncePoll(r))

\* C18: no step of a health check changes whether the port is open, the
\* loop thread, the stop signal or the recorded last error, and none starts
\* a recovery, also when the probe raises.
C18_HealthKeepsSession ==
  [][\A r \in Handlers : HealthStep(r) =>
       /\ portState' = portState
       /\ serial_thread' = serial_thread
       /\ threads' = threads
       /\ should_stop_serial_thread' = should_stop_serial_thread
       /\ last_error' = last_error
       /\ req'[r].recov = 0]_vars

\* C19: at most one thread runs read_serial_data_continuous at any time.
C19_OneLoopThread == Cardinality({t \in ThreadIds : is_alive(t)}) <= 1

\* C21: the error counter of the continuous loop counts failures in a row:
\* an iteration that ends without an I/O error leaves the count at 0, a
\* first I/O error is followed by a retry, and the loop gives up only in the
\* fifth failed iteration of a row.
C21_CountsConsecutive ==
  [][\A t \in ThreadIds : LoopIterate(t) /\ ~should_stop_serial_thread =>
       /\ ~IOFails => threads'[t].consecutive_errors = 0
       /\ IOFails /\ threads[t].consecutive_errors = 0 =>
            threads'[t].pc = "run" /\ threads'[t].consecutive_errors = 1
       /\ threads'[t].pc # "run" =>
            IOFails /\ threads[t].consecutive_errors = MaxConsecutiveErrors - 1]_vars

\* The threads running read_serial_data_continuous
LiveLoops == {t \in ThreadIds : is_alive(t)}

\* C22: a /api/weight/latest request that arrived with the handle not open
\* or the loop thread dead, while the indicator was attached and stayed so,
\* and that no other request overlapped, is answered with an error and
\* leaves the handle open, the stop signal cleared and one loop thread
\* running.
C22_RequestHeals ==
  \A r \in Handlers :
    req[r].pc = "done" /\ req[r].op = "latest" /\ req[r].down # "no" =>
      /\ req[r].outcome \in {"PortError", "NoData"}
      /\ portState = "open"
      /\ ~should_stop_serial_thread
      /\ Cardinality(LiveLoops) = 1

====
